---- MODULE Spec2Model ----
(***************************************************************************)
(* A model of scripts/perplexity_client.py: the command-line bridge that   *)
(* forwards a research query to the Perplexity completions API and prints  *)
(* one JSON result.                                                        *)
(*                                                                         *)
(* Text is a sequence of characters, each character a one-letter string.   *)
(* Three characters that have no ASCII spelling are written by their code  *)
(* point: "U+0130" (capital I with dot above), "U+0307" (combining dot     *)
(* above) and "U+017F" (long s).  A fixed message of the program that is   *)
(* never parsed is a sequence holding the whole message as one element.    *)
(***************************************************************************)
EXTENDS Integers, Sequences, FiniteSets, TLC

----------------------------------------------------------------------------
(* Characters and the Python string operations the program uses.           *)

LowerLetters == <<"a","b","c","d","e","f","g","h","i","j","k","l","m",
                  "n","o","p","q","r","s","t","u","v","w","x","y","z">>
UpperLetters == <<"A","B","C","D","E","F","G","H","I","J","K","L","M",
                  "N","O","P","Q","R","S","T","U","V","W","X","Y","Z">>
DigitChars == {"0","1","2","3","4","5","6","7","8","9"}
Range(f) == {f[i] : i \in DOMAIN f}
Max(S) == CHOOSE x \in S : \A y \in S : y <= x
Min(S) == CHOOSE x \in S : \A y \in S : x <= y

\* \s of the re module and str.isspace, on the characters of the model
IsSpace(c) == c \in {" ", "\t", "\n", "\r"}
\* \d
IsDigit(c) == c \in DigitChars
\* \w: letters (also the non-ASCII ones), digits and the underscore
IsWord(c) == \/ c \in Range(LowerLetters) \cup Range(UpperLetters)
             \/ c \in DigitChars \cup {"_", "U+0130", "U+017F"}

\* str.lower() of one character: U+0130 lowers to the two code points
\* "i" U+0307, the long s is already lower case
LowerOf(c) ==
    IF c \in Range(UpperLetters)
    THEN <<LowerLetters[CHOOSE i \in DOMAIN UpperLetters : UpperLetters[i] = c]>>
    ELSE IF c = "U+0130" THEN <<"i", "U+0307">> ELSE <<c>>

\* str.lower(): character by character (the text is halved rather than
\* walked, which keeps the evaluation shallow)
RECURSIVE lower(_)
lower(s) ==
    IF s = <<>> THEN <<>>
    ELSE IF Len(s) = 1 THEN LowerOf(s[1])
    ELSE lower(SubSeq(s, 1, Len(s) \div 2)) \o lower(SubSeq(s, Len(s) \div 2 + 1, Len(s)))

\* what a character is compared as under re.IGNORECASE: besides the case
\* pairs, the long s matches "s" and U+0130 matches "i"
RegexFold(c) ==
    IF c \in Range(UpperLetters)
    THEN LowerLetters[CHOOSE i \in DOMAIN UpperLetters : UpperLetters[i] = c]
    ELSE IF c = "U+017F" THEN "s" ELSE IF c = "U+0130" THEN "i" ELSE c

\* s[a:b] of Python, 0 <= a, b; offsets count from 0
Slice(s, a, b) == SubSeq(s, a + 1, IF b > Len(s) THEN Len(s) ELSE b)

\* the literal lit stands at offset i of s (exactly / ignoring case)
StartsAt(s, i, lit) ==
    /\ i >= 0 /\ i + Len(lit) <= Len(s)
    /\ \A k \in 1..Len(lit) : s[i + k] = lit[k]
MatchLit(s, i, lit) ==
    /\ i >= 0 /\ i + Len(lit) <= Len(s)
    /\ \A k \in 1..Len(lit) : RegexFold(s[i + k]) = lit[k]

\* str.find(sub): the offset of the first occurrence, or -1
find(s, sub) ==
    LET hits == {i \in 0..(Len(s) - Len(sub)) : StartsAt(s, i, sub)}
    IN IF hits = {} THEN -1 ELSE Min(hits)

\* the offset at which the run of whitespace (of non-whitespace, of
\* digits) that starts at offset i ends; i itself when the run is empty
SpaceRunEnd(s, i) ==
    LET stops == {j \in (i + 1)..Len(s) : ~IsSpace(s[j])}
    IN IF i >= Len(s) THEN i ELSE IF stops = {} THEN Len(s) ELSE Min(stops) - 1
NonSpaceRunEnd(s, i) ==
    LET stops == {j \in (i + 1)..Len(s) : IsSpace(s[j])}
    IN IF i >= Len(s) THEN i ELSE IF stops = {} THEN Len(s) ELSE Min(stops) - 1
DigitRunEnd(s, i) ==
    LET stops == {j \in (i + 1)..Len(s) : ~IsDigit(s[j])}
    IN IF i >= Len(s) THEN i ELSE IF stops = {} THEN Len(s) ELSE Min(stops) - 1

\* str.strip()
strip(s) ==
    LET keep == {i \in 1..Len(s) : ~IsSpace(s[i])}
    IN IF keep = {} THEN <<>> ELSE SubSeq(s, Min(keep), Max(keep))

\* str.split('\n'): always at least one piece
RECURSIVE split(_)
split(s) ==
    LET nl == {i \in 1..Len(s) : s[i] = "\n"}
    IN IF nl = {} THEN <<s>>
       ELSE <<SubSeq(s, 1, Min(nl) - 1)>> \o split(SubSeq(s, Min(nl) + 1, Len(s)))

\* \b at offset i: exactly one of the characters on its two sides is a
\* word character (the ends of the text count as non-word)
WordBoundary(s, i) ==
    (i >= 1 /\ i <= Len(s) /\ IsWord(s[i])) # (i < Len(s) /\ IsWord(s[i + 1]))

----------------------------------------------------------------------------
(* The regular expressions of extract_references.  Each operator yields    *)
(* the match that Python's backtracking matcher finds first: a greedy      *)
(* repetition is tried longest first, a lazy one shortest first, an        *)
(* alternation left to right.                                              *)

NoMatch == <<>>
Desc(hi, lo) == [i \in 1..(hi - lo + 1) |-> hi - i + 1]
MinOr(S, none) == IF S = {} THEN none ELSE Min(S)
MaxOr(S, none) == IF S = {} THEN none ELSE Max(S)

\* \S+ from offset r without the \b: the URL runs to the next whitespace
UrlTailToSpace(s, r) ==
    IF NonSpaceRunEnd(s, r) > r THEN NonSpaceRunEnd(s, r) ELSE -1
\* \S+ from offset r followed by \b: \S+ runs to the next whitespace and
\* gives characters back until a word boundary follows; -1 when none does
UrlTail(s, r) ==
    MaxOr({f \in (r + 1)..NonSpaceRunEnd(s, r) : WordBoundary(s, f)}, -1)

\* https?:\/\/\S+ followed by \b, under IGNORECASE, at offset p: the offset
\* at which the URL ends, or -1
UrlEnd(s, p) ==
    IF MatchLit(s, p, <<"h","t","t","p",":","/","/">>) THEN UrlTail(s, p + 7)
    ELSE IF MatchLit(s, p, <<"h","t","t","p","s",":","/","/">>) THEN UrlTail(s, p + 8)
    ELSE -1

\* (?:\s*\n)+([\s\S]+) at offset q: the offset at which group 1 starts, or
\* -1.  (?:\s*\n)+ ends at the last line break of the whitespace at q that
\* still leaves a character for group 1.
SectionBreak(s, q) ==
    MaxOr({k \in (q + 1)..SpaceRunEnd(s, q) : s[k] = "\n" /\ k < Len(s)}, -1)

\* references:?(?:\s*\n)+([\s\S]+) with "references" at offset p: the
\* offset at which group 1 starts, or -1
SectionStart(s, p) ==
    IF ~MatchLit(s, p, <<"r","e","f","e","r","e","n","c","e","s">>) THEN -1
    ELSE IF StartsAt(s, p + 10, <<":">>) THEN SectionBreak(s, p + 11)
    ELSE SectionBreak(s, p + 10)

\* re.search(r'references:?(?:\s*\n)+([\s\S]+)', content, re.IGNORECASE):
\* the offset at which the leftmost match starts, or -1
section_offset(content) ==
    MinOr({p \in 0..(Len(content) - 10) : SectionStart(content, p) # -1}, -1)

\* group 1 of that match, or NoMatch
SectionFrom(content, p) ==
    IF p = -1 THEN NoMatch
    ELSE Slice(content, SectionStart(content, p), Len(content))
references_match(content) == SectionFrom(content, section_offset(content))

\* \s+-\s+ with its first \s+ ending at offset w, and \s*\n\s* within the
\* whitespace from offset b to offset w: the offsets at which each can end,
\* in the order the matcher tries them
DashEnds(s, w, w2) ==
    IF StartsAt(s, w, <<"-">>) /\ w2 > w + 1 THEN Desc(w2, w + 2) ELSE <<>>
BreakEnds(w, first) == IF first = -1 THEN <<>> ELSE Desc(w, first)
SepEndsTo(s, b, w) ==
    (IF w > b THEN DashEnds(s, w, SpaceRunEnd(s, w + 1)) ELSE <<>>)
    \o BreakEnds(w, MinOr({k \in (b + 1)..w : s[k] = "\n"}, -1))

\* (?:\s+-\s+|\s*\n\s*) at offset b: the offsets at which it can end, in
\* the order the matcher tries them
SepEnds(s, b) == SepEndsTo(s, b, SpaceRunEnd(s, b))

NoBreak(s, a, b) == \A k \in (a + 1)..b : s[k] # "\n"

\* the first of the offsets ends at which a URL matches, or -1
FirstUrlAt(s, ends) ==
    MinOr({i \in DOMAIN ends : UrlEnd(s, ends[i]) # -1}, -1)
UrlAfterSep(s, ends, i) == IF i = -1 THEN -1 ELSE ends[i]
\* (?:\s+-\s+|\s*\n\s*)(https?:\/\/\S+)\b at offset d: the offset at which
\* the URL starts, or -1
TailAt(s, d) == UrlAfterSep(s, SepEnds(s, d), FirstUrlAt(s, SepEnds(s, d)))

TailFrom(s, d, e) == <<d, e, UrlEnd(s, e)>>
TailOf(s, d) == IF d = -1 THEN NoMatch ELSE TailFrom(s, d, TailAt(s, d))
\* (.+?)(?:\s+-\s+|\s*\n\s*)(https?:\/\/\S+)\b with the lazy group starting
\* at offset c: <<end of the group, start of the URL, end of the URL>>
TailMatch(s, c) ==
    TailOf(s, MinOr({d \in (c + 1)..Len(s) : NoBreak(s, c, d) /\ TailAt(s, d) # -1}, -1))

\* the first of the offsets ends from which the snippet and the URL match
FirstTailAt(s, ends) ==
    MinOr({i \in DOMAIN ends : TailMatch(s, ends[i]) # NoMatch}, -1)
\* (?:\s+-\s+|\s*\n\s*)(.+?)... at offset b: the offset at which the
\* snippet starts, or -1
TitleAt(s, b) == UrlAfterSep(s, SepEnds(s, b), FirstTailAt(s, SepEnds(s, b)))

TitleFrom(s, b, c) == <<b, c>> \o TailMatch(s, c)
TitleOf(s, b) == IF b = -1 THEN NoMatch ELSE TitleFrom(s, b, TitleAt(s, b))
\* (.+?)(?:\s+-\s+|\s*\n\s*) and the rest, the title starting at offset a:
\* <<end of title, start of snippet, end of snippet, start of URL, end of URL>>
TitleMatch(s, a) ==
    TitleOf(s, MinOr({b \in (a + 1)..Len(s) : NoBreak(s, a, b) /\ TitleAt(s, b) # -1}, -1))

Groups(line, a, m) ==
    <<Slice(line, a, m[1]), Slice(line, m[2], m[3]), Slice(line, m[4], m[5])>>
GroupsFrom(line, a) == IF a = -1 THEN NoMatch ELSE Groups(line, a, TitleMatch(line, a))
\* \s+(.+?)... after "<n>." that ends at offset n + 1: \s+ is tried longest
\* first
AfterOrdinal(line, n) ==
    GroupsFrom(line, MaxOr({a \in (n + 2)..SpaceRunEnd(line, n + 1) :
                               TitleMatch(line, a) # NoMatch}, -1))
OrdinalEnd(line, n) == IF n > 0 /\ StartsAt(line, n, <<".">>) THEN n ELSE -1

\* re.match(r'^\d+\.\s+(.+?)(?:\s+-\s+|\s*\n\s*)(.+?)(?:\s+-\s+|\s*\n\s*)
\*           (https?:\/\/\S+)\b', line, re.IGNORECASE): groups 1, 2 and 3
structured_match(line) ==
    IF OrdinalEnd(line, DigitRunEnd(line, 0)) = -1 THEN NoMatch
    ELSE AfterOrdinal(line, DigitRunEnd(line, 0))

UrlGroups(line, p) ==
    IF p = -1 THEN NoMatch
    ELSE <<Slice(line, 0, p), Slice(line, p, UrlEnd(line, p))>>
\* re.match(r'^(.*?)(https?:\/\/\S+)\b', line, re.IGNORECASE): groups 1, 2
url_match(line) ==
    UrlGroups(line, MinOr({p \in 0..Len(line) :
                              NoBreak(line, 0, p) /\ UrlEnd(line, p) # -1}, -1))

\* re.findall(r'\bhttps?:\/\/\S+\b', content, re.IGNORECASE) from offset
\* pos on: the matches, left to right, none overlapping another
RECURSIVE findall_urls(_, _)
FindFrom(content, p) ==
    IF p = -1 THEN <<>>
    ELSE <<Slice(content, p, UrlEnd(content, p))>>
         \o findall_urls(content, UrlEnd(content, p))
findall_urls(content, pos) ==
    FindFrom(content, MinOr({p \in pos..Len(content) :
                                WordBoundary(content, p) /\ UrlEnd(content, p) # -1}, -1))

LastPartFrom(text, stop) ==
    IF stop = -1 THEN text ELSE Slice(text, SpaceRunEnd(text, stop), Len(text))
\* re.split(r'[.!?]\s+', text)[-1]: what follows the last sentence end
last_sentence_part(text) ==
    LastPartFrom(text, MaxOr({i \in 1..(Len(text) - 1) :
                                 text[i] \in {".", "!", "?"} /\ IsSpace(text[i + 1])}, -1))

----------------------------------------------------------------------------
(* extract_references                                                      *)

WindowLen == 150
DefaultTitle == <<"Reference">>
DefaultSnippet == <<"No snippet available">>
OrElse(text, default) == IF text = <<>> THEN default ELSE text

\* the reference of a line the four-part pattern matched
structured_reference(m) ==
    [title |-> strip(m[1]), snippet |-> strip(m[2]), url |-> strip(m[3])]

\* the reference of a line of which only a URL matched: the text before
\* the URL, halved
halved_reference(remaining_text, url) ==
    [title |-> OrElse(strip(Slice(remaining_text, 0, Len(remaining_text) \div 2)),
                      DefaultTitle),
     snippet |-> OrElse(strip(Slice(remaining_text, Len(remaining_text) \div 2,
                                    Len(remaining_text))), DefaultSnippet),
     url |-> url]
loose_reference(m) ==
    IF m = NoMatch THEN <<>> ELSE <<halved_reference(strip(m[1]), m[2])>>

line_references(line, m) ==
    IF m # NoMatch THEN <<structured_reference(m)>>
    ELSE loose_reference(url_match(line))

\* the body of the loop over reference_lines, for one line: the references
\* it appends (none or one)
parse_line(line) ==
    IF strip(line) = <<>> THEN <<>>
    ELSE line_references(line, structured_match(line))

RECURSIVE parse_lines(_)
parse_lines(reference_lines) ==
    IF reference_lines = <<>> THEN <<>>
    ELSE parse_line(Head(reference_lines)) \o parse_lines(Tail(reference_lines))

LinesOf(section) == IF section = NoMatch THEN <<>> ELSE split(strip(section))
\* reference_lines, when the section is found; no lines otherwise
section_lines(content) == LinesOf(references_match(content))

\* the offset in content at which the fallback looks for the text around url
url_index(content, url) == find(content, url)

surrounding_reference(surrounding_text, url) ==
    [title |-> OrElse(last_sentence_part(surrounding_text), DefaultTitle),
     snippet |-> OrElse(surrounding_text, DefaultSnippet),
     url |-> url]
surrounding(content, at) ==
    strip(Slice(content, IF at - WindowLen > 0 THEN at - WindowLen ELSE 0, at))

\* the fallback's reference for one URL that findall returned
fallback_reference(content, url) ==
    surrounding_reference(surrounding(content, url_index(content, url)), url)

FallbackFor(content, urls) ==
    [i \in 1..Len(urls) |-> fallback_reference(content, urls[i])]
fallback_references(content) == FallbackFor(content, findall_urls(content, 0))

OrFallback(content, refs) ==
    IF refs = <<>> THEN fallback_references(content) ELSE refs
extract_references(content) ==
    OrFallback(content, parse_lines(section_lines(content)))

----------------------------------------------------------------------------
(* The texts the model is run on: every concatenation of at most MaxPieces *)
(* of the pieces below, which are the shapes a model's answer takes.       *)

MaxPieces == 3

UrlX == <<"h","t","t","p",":","/","/","x">>
UrlYZ == <<"h","t","t","p","s",":","/","/","y","/","z","/">>
Dash == <<" ","-"," ">>
\* "<n>. <title> - <snippet> - <url>"
Entry(n, title, snippet, url) ==
    n \o <<"."," ">> \o title \o Dash \o snippet \o Dash \o url

\* a sentence and a word of the answer
Sentence == <<"O","k","."," ">>
Word == <<"s","e","e"," ">>
LineBreak == <<"\n">>
\* the heading of a references section
Heading == <<"R","e","f","e","r","e","n","c","e","s",":","\n">>
\* the word inside a sentence: no line break follows it
Mention == <<"r","e","f","e","r","e","n","c","e","s"," ">>
\* the heading spelled with a long s
LongSHeading == <<"R","e","f","e","r","e","n","c","e","U+017F",":","\n">>
\* a capital I with dot above, as in Turkish text
DottedI == <<"U+0130">>
\* numbered entries, well formed; the second URL ends in a slash
Entry1 == Entry(<<"1">>, <<"T">>, <<"S">>, UrlX) \o LineBreak
Entry2 == Entry(<<"2">>, <<"U">>, <<"V">>, UrlYZ) \o LineBreak
\* a numbered entry whose title is blank
BlankTitleEntry == <<"3","."," "," "," ","-"," ","S"," ","-"," "," ">> \o UrlX \o LineBreak
\* a numbered entry broken over three lines
BrokenEntry == <<"1","."," ","T","\n","S","\n">> \o UrlX \o LineBreak
\* a URL in running text, a URL that has it as a prefix, and a URL in
\* capitals that ends a sentence
Url == UrlX \o <<" ">>
LongerUrl == UrlX \o <<"/","y"," ">>
UpperUrl == <<"H","T","T","P",":","/","/","x","."," ">>
\* a word longer than the window the fallback looks back over
Filler == [i \in 1..(WindowLen + 2) |-> "a"] \o <<" ">>

Pieces == {Sentence, Word, LineBreak, Heading, Mention, LongSHeading, DottedI,
           Entry1, Entry2, BlankTitleEntry, BrokenEntry, Url, LongerUrl,
           UpperUrl, Filler}

RECURSIVE Texts(_)
Texts(n) == IF n = 0 THEN {<<>>}
            ELSE Texts(n - 1) \cup {t \o p : t \in Texts(n - 1), p \in Pieces}
Inputs == Texts(MaxPieces)

----------------------------------------------------------------------------
(* State.                                                                  *)

VARIABLES
    pc,          \* where the process (or the function under test) stands
    requests_ok, \* whether "import requests" succeeds
    argv,        \* the command line argument
    env_key,     \* PERPLEXITY_API_KEY of the environment, <<>> when unset
    upstream,    \* what the upstream did when it was called
    result,      \* the result dictionary
    stdout,      \* what was printed to standard output, in order
    exit_code,   \* the exit code, -1 while the process runs
    content,     \* the text given to extract_references
    references,  \* what extract_references returned
    transport,   \* the lines the streaming response has yet to deliver
    delivered,   \* the lines it has delivered
    yielded      \* what the streaming generator has yielded

vars == <<pc, requests_ok, argv, env_key, upstream, result, stdout, exit_code,
          content, references, transport, delivered, yielded>>

NoArgv == [kind |-> "none", query |-> [has |-> FALSE, v |-> <<>>],
           apiKey |-> [has |-> FALSE, v |-> <<>>]]
NoUpstream == [kind |-> "none", shape |-> 0, text |-> <<>>]
NoResult == [answer |-> <<>>, references |-> <<>>, simulated |-> FALSE]

----------------------------------------------------------------------------
(* extract_references, run on every input.                                 *)

InitExtract ==
    /\ pc = "extract"
    /\ content \in Inputs
    /\ references = <<>>
    /\ requests_ok = TRUE /\ argv = NoArgv /\ env_key = <<>>
    /\ upstream = NoUpstream /\ result = NoResult
    /\ stdout = <<>> /\ exit_code = -1
    /\ transport = <<>> /\ delivered = <<>> /\ yielded = <<>>

ExtractReferences ==
    /\ pc = "extract"
    /\ references' = extract_references(content)
    /\ pc' = "extracted"
    /\ UNCHANGED <<requests_ok, argv, env_key, upstream, result, stdout,
                   exit_code, content, transport, delivered, yielded>>

NextExtract == ExtractReferences

SpecExtract == InitExtract /\ [][NextExtract]_vars

----------------------------------------------------------------------------
(* The decoded response body, and Python's operations on it.  A dictionary *)
(* is a sequence of <<key, value>> pairs.  An operation that can raise     *)
(* yields Ok(value) or Raise(str(e)).                                      *)

JNull == [t |-> "NoneType", v |-> <<>>]
JStr(text) == [t |-> "str", v |-> text]
JList(items) == [t |-> "list", v |-> items]
JDict(pairs) == [t |-> "dict", v |-> pairs]

Ok(v) == [ok |-> TRUE, v |-> v, exc |-> <<>>]
Raise(message) == [ok |-> FALSE, v |-> <<>>, exc |-> message]

\* obj.get(key, default)
dict_get(obj, key, default) ==
    IF obj.t # "dict"
    THEN Raise(<<"'", obj.t, "' object has no attribute 'get'">>)
    ELSE LET at == {i \in DOMAIN obj.v : obj.v[i][1] = key}
         IN IF at = {} THEN Ok(default) ELSE Ok(obj.v[Max(at)][2])

\* obj[0]
first_item(obj) ==
    CASE obj.t = "list" ->
            IF obj.v = <<>> THEN Raise(<<"list index out of range">>) ELSE Ok(obj.v[1])
      [] obj.t = "str" ->
            IF obj.v = <<>> THEN Raise(<<"string index out of range">>)
            ELSE Ok(JStr(<<obj.v[1]>>))
      [] obj.t = "dict" -> Raise(<<"0">>)
      [] OTHER -> Raise(<<"'", obj.t, "' object is not subscriptable">>)

\* response.get("choices", [{}])[0].get("message", {}).get("content", "")
content_of(response) ==
    LET choices == dict_get(response, "choices", JList(<<JDict(<<>>)>>))
        choice == IF choices.ok THEN first_item(choices.v) ELSE choices
        message == IF choice.ok THEN dict_get(choice.v, "message", JDict(<<>>)) ELSE choice
    IN IF message.ok THEN dict_get(message.v, "content", JStr(<<>>)) ELSE message

\* len(content), for the log line
len_of(obj) ==
    IF obj.t \in {"str", "list", "dict"} THEN Ok(Len(obj.v))
    ELSE Raise(<<"object of type '", obj.t, "' has no len()">>)

----------------------------------------------------------------------------
(* PerplexityAPI and perform_research                                      *)

\* "x or y" and "not x" on texts; <<>> stands for None and for ""
Truthy(text) == text # <<>>

\* PerplexityAPI.__init__: the key the client uses
PerplexityAPI_init(api_key, environ_key) ==
    LET key == IF Truthy(api_key) THEN api_key ELSE environ_key
    IN IF ~Truthy(key)
       THEN Raise(<<"API key must be provided either as an argument or as the PERPLEXITY_API_KEY environment variable.">>)
       ELSE Ok(key)

\* the bodies a 200 response can decode to, around the text of the answer
Shapes == 1..10
ResponseBody(shape, text) ==
    LET Choices(c) == JDict(<< <<"choices", c>> >>)
        Message(m) == Choices(JList(<< JDict(<< <<"message", m>> >>) >>))
        Content(c) == Message(JDict(<< <<"content", c>> >>))
    IN CASE shape = 1 -> Content(JStr(text))
         [] shape = 2 -> JDict(<<>>)
         [] shape = 3 -> Choices(JList(<<>>))
         [] shape = 4 -> Choices(JList(<<JDict(<<>>)>>))
         [] shape = 5 -> Message(JNull)
         [] shape = 6 -> Message(JDict(<<>>))
         [] shape = 7 -> Content(JNull)
         [] shape = 8 -> JList(<<>>)
         [] shape = 9 -> Choices(JNull)
         [] shape = 10 -> Content(JList(<<JStr(text)>>))

\* chat_completion with stream=False: the decoded body, or the
\* RequestException that requests.post, raise_for_status or response.json
\* raised and the method raised again
chat_completion(outcome) ==
    CASE outcome.kind = "refused" -> Raise(<<"ConnectionError: request failed">>)
      [] outcome.kind = "status" -> Raise(<<"HTTPError: 401 Client Error">>)
      [] outcome.kind = "garbled" -> Raise(<<"JSONDecodeError: Expecting value">>)
      [] outcome.kind = "json" -> Ok(ResponseBody(outcome.shape, outcome.text))

\* content.lower().find("references")
references_index(text) ==
    find(lower(text), <<"r","e","f","e","r","e","n","c","e","s">>)

\* the answer: the content with the references section removed
answer_of(text) ==
    IF references_index(text) # -1
    THEN strip(Slice(text, 0, references_index(text)))
    ELSE text

\* the except branch of perform_research
error_result(e) ==
    [error |-> e, answer |-> <<"Error performing research: ">> \o e,
     references |-> <<>>, simulated |-> TRUE]

perform_research(query, api_key, environ_key, outcome) ==
    LET perplexity == PerplexityAPI_init(api_key, environ_key)
        response == IF perplexity.ok THEN chat_completion(outcome) ELSE perplexity
        got == IF response.ok THEN content_of(response.v) ELSE response
        length == IF got.ok THEN len_of(got.v) ELSE got
    IN IF ~length.ok THEN error_result(length.exc)
       ELSE IF got.v.t # "str"
       THEN error_result(<<"expected string or bytes-like object, got '", got.v.t, "'">>)
       ELSE [answer |-> answer_of(got.v.v),
             references |-> extract_references(got.v.v),
             simulated |-> FALSE]

----------------------------------------------------------------------------
(* The script: the import guard and the __main__ block.                    *)

MaxContentPieces == 2
Contents == Texts(MaxContentPieces)

QueryText == <<"q">>
KeyText == <<"k">>
EnvKeyText == <<"e">>

\* sys.argv[1]: absent, not JSON, a JSON array, or a JSON object whose
\* "query" and "apiKey" are absent (None), empty or present
ObjectArgv(kind) ==
    {[kind |-> kind, query |-> q, apiKey |-> k] :
        q \in {[has |-> FALSE, v |-> <<>>], [has |-> TRUE, v |-> <<>>],
               [has |-> TRUE, v |-> QueryText]},
        k \in {[has |-> FALSE, v |-> <<>>], [has |-> TRUE, v |-> <<>>],
               [has |-> TRUE, v |-> KeyText]}}
NoField == [has |-> FALSE, v |-> <<>>]
Argvs == {[kind |-> k, query |-> NoField, apiKey |-> NoField] :
              k \in {"none", "text", "array"}} \cup ObjectArgv("object")
\* the arguments of perform_research when another module imports this one
\* and calls it: the kind is "call"
CallArgs == {a \in ObjectArgv("call") : a.query.has /\ a.apiKey.has}

\* what the upstream can do with one request
Outcomes ==
    {[kind |-> k, shape |-> 0, text |-> <<>>] : k \in {"refused", "status", "garbled"}}
    \cup {[kind |-> "json", shape |-> 1, text |-> c] : c \in Contents}
    \cup {[kind |-> "json", shape |-> i, text |-> QueryText] : i \in Shapes \ {1}}

\* the fixed results of the script
import_error_result ==
    [error |-> <<"Python requests module not installed. Please install with: python3 -m pip install requests">>,
     answer |-> <<"Error: Python requests library not available">>,
     references |-> <<>>, simulated |-> TRUE]
no_input_result ==
    [error |-> <<"No input provided to Python script">>,
     answer |-> <<"Error: No input provided to Python script">>,
     references |-> <<>>, simulated |-> TRUE]
no_query_result ==
    [error |-> <<"No query provided">>,
     answer |-> <<"Error: No query provided to Python script">>,
     references |-> <<>>, simulated |-> TRUE]
simulated_result(query) ==
    [answer |-> <<"Simulated response for: ">> \o query,
     references |-> <<[title |-> <<"Simulated Reference">>,
                       snippet |-> <<"This is a simulated reference snippet.">>,
                       url |-> <<"https://example.com/simulated">>]>>,
     error |-> <<"No API key provided">>, simulated |-> TRUE]
unexpected_error_result(e) ==
    [error |-> <<"Unexpected error in Python script: ">> \o e,
     answer |-> <<"Error in Python script: ">> \o e,
     references |-> <<>>, simulated |-> TRUE]

\* a bare "except:", which catches SystemExit too
CaughtByBareExcept(class) == TRUE
\* "except Exception": whether the handler of the __main__ block catches
\* an exception of this class (SystemExit derives from BaseException only)
Caught(class) == class # "SystemExit"

\* json.loads(sys.argv[1]) and the three .get calls on its value
parse_input(arg) ==
    CASE arg.kind = "text" -> Raise(<<"Expecting value: line 1 column 1 (char 0)">>)
      [] arg.kind = "array" -> Raise(<<"'list' object has no attribute 'get'">>)
      [] OTHER -> Ok(arg)

Init ==
    /\ pc = "import"
    /\ requests_ok \in BOOLEAN
    /\ argv \in Argvs \cup CallArgs
    /\ env_key \in {<<>>, EnvKeyText}
    /\ upstream = NoUpstream /\ result = NoResult
    /\ stdout = <<>> /\ exit_code = -1
    /\ content = <<>> /\ references = <<>>
    /\ transport = <<>> /\ delivered = <<>> /\ yielded = <<>>

Untouched == <<requests_ok, argv, env_key, content, references, transport,
               delivered, yielded>>

\* print(json.dumps(r)) followed by sys.exit(code)
PrintAndExit(r, code) ==
    /\ stdout' = Append(stdout, r)
    /\ exit_code' = code
    /\ pc' = "exited"

\* print(json.dumps(r)) and sys.exit(1) inside the try block: SystemExit
\* passes the handler unless the handler catches it, and then the handler
\* prints its own result and exits
PrintAndExitInTry(r) ==
    IF Caught("SystemExit")
    THEN /\ stdout' = stdout \o <<r, unexpected_error_result(<<"1">>)>>
         /\ exit_code' = 1
         /\ pc' = "exited"
    ELSE PrintAndExit(r, 1)

\* lines 9-18; the __main__ block runs only when the file is the script
ImportRequests ==
    /\ pc = "import"
    /\ IF requests_ok
       THEN /\ pc' = IF argv.kind = "call" THEN "imported" ELSE "main"
            /\ UNCHANGED <<stdout, exit_code>>
       ELSE PrintAndExit(import_error_result, 1)
    /\ UNCHANGED <<upstream, result>> /\ UNCHANGED Untouched

\* lines 191-247, called by an importing module
CallPerformResearch ==
    /\ pc = "imported"
    /\ \E o \in Outcomes :
          /\ upstream' = IF PerplexityAPI_init(argv.apiKey.v, env_key).ok
                         THEN o ELSE NoUpstream
          /\ result' = perform_research(argv.query.v, argv.apiKey.v, env_key, o)
    /\ pc' = "returned"
    /\ UNCHANGED <<stdout, exit_code>> /\ UNCHANGED Untouched

\* lines 254-262
CheckArgument ==
    /\ pc = "main"
    /\ IF argv.kind = "none"
       THEN PrintAndExit(no_input_result, 1)
       ELSE pc' = "parse" /\ UNCHANGED <<stdout, exit_code>>
    /\ UNCHANGED <<upstream, result>> /\ UNCHANGED Untouched

\* lines 264-272, and the handler of lines 307-316 when they raise; an
\* exception the handler does not catch ends the process with code 1
ParseInputExiting(code) ==
    /\ pc = "parse"
    /\ IF parse_input(argv).ok
       THEN pc' = "query" /\ UNCHANGED <<stdout, exit_code>>
       ELSE IF Caught("Exception")
       THEN PrintAndExit(unexpected_error_result(parse_input(argv).exc), code)
       ELSE exit_code' = 1 /\ pc' = "exited" /\ UNCHANGED stdout
    /\ UNCHANGED <<upstream, result>> /\ UNCHANGED Untouched
\* the handler without its sys.exit(1): the script runs off its end
ParseInputNoExit == ParseInputExiting(0)
ParseInput == ParseInputExiting(1)

\* lines 274-282
CheckQuery ==
    /\ pc = "query"
    /\ IF ~Truthy(argv.query.v)
       THEN PrintAndExitInTry(no_query_result)
       ELSE pc' = "key" /\ UNCHANGED <<stdout, exit_code>>
    /\ UNCHANGED <<upstream, result>> /\ UNCHANGED Untouched

\* lines 284-298: no key, so no call and the simulated result
SimulatedResponse ==
    /\ pc = "key"
    /\ ~Truthy(argv.apiKey.v)
    /\ result' = simulated_result(argv.query.v)
    /\ pc' = "output"
    /\ UNCHANGED <<upstream, stdout, exit_code>> /\ UNCHANGED Untouched

\* lines 299-301: the call of perform_research, with whatever the upstream
\* does when the client gets as far as calling it
Research ==
    /\ pc = "key"
    /\ Truthy(argv.apiKey.v)
    /\ \E o \in Outcomes :
          /\ upstream' = IF PerplexityAPI_init(argv.apiKey.v, env_key).ok
                         THEN o ELSE NoUpstream
          /\ result' = perform_research(argv.query.v, argv.apiKey.v, env_key, o)
    /\ pc' = "output"
    /\ UNCHANGED <<stdout, exit_code>> /\ UNCHANGED Untouched

\* lines 303-305, and the end of the script
Output ==
    /\ pc = "output"
    /\ PrintAndExit(result, 0)
    /\ UNCHANGED <<upstream, result>> /\ UNCHANGED Untouched

Next ==
    \/ ImportRequests
    \/ CheckArgument
    \/ ParseInput
    \/ CheckQuery
    \/ SimulatedResponse
    \/ Research
    \/ Output
    \/ CallPerformResearch

Spec == Init /\ [][Next]_vars

----------------------------------------------------------------------------
(* PerplexityAPI._stream_response: the generator, one line of the          *)
(* response at a time.  A line is a sequence of bytes; "0xC3" "0xA9" is    *)
(* the UTF-8 encoding of U+00E9 and "0xFF" is no UTF-8 at all.             *)

MaxLines == 3

DataPrefix == <<"d","a","t","a",":"," ">>
DoneMark == <<"[","D","O","N","E","]">>
StreamLines ==
    {<<>>,                                   \* a keep-alive line
     <<":"," ","p","i","n","g">>,            \* a comment line
     <<"d","a","t","a",":","x">>,            \* not the prefix: no space
     DataPrefix \o <<"a">>,
     DataPrefix \o <<"b">>,
     DataPrefix \o <<"0xC3","0xA9">>,
     DataPrefix \o <<"0xFF">>,
     DataPrefix \o DoneMark,
     DataPrefix \o <<" ">> \o DoneMark \o <<" ">>}

RECURSIVE LineSeqs(_)
LineSeqs(n) == IF n = 0 THEN {<<>>}
               ELSE LineSeqs(n - 1) \cup {t \o <<l>> : t \in LineSeqs(n - 1), l \in StreamLines}

\* bytes.decode("utf-8")
Utf8Valid(bytes) ==
    \A i \in DOMAIN bytes :
        /\ bytes[i] # "0xFF"
        /\ bytes[i] = "0xC3" => (i < Len(bytes) /\ bytes[i + 1] = "0xA9")
        /\ bytes[i] = "0xA9" => (i > 1 /\ bytes[i - 1] = "0xC3")
RECURSIVE Utf8Text(_)
Utf8Text(bytes) ==
    IF bytes = <<>> THEN <<>>
    ELSE IF Head(bytes) = "0xC3" THEN <<"U+00E9">> \o Utf8Text(Tail(Tail(bytes)))
    ELSE <<Head(bytes)>> \o Utf8Text(Tail(bytes))
decode(bytes) ==
    IF Utf8Valid(bytes) THEN Ok(Utf8Text(bytes))
    ELSE Raise(<<"'utf-8' codec can't decode byte">>)

\* lines 121-124: the chunk of a line the generator yields for, or NoChunk
NoChunk == <<"no chunk">>
ChunkIfData(chunk) == IF strip(chunk) # DoneMark THEN chunk ELSE NoChunk
chunk_of(line) ==
    IF line # <<>> /\ StartsAt(line, 0, DataPrefix)
    THEN ChunkIfData(Slice(line, 6, Len(line)))
    ELSE NoChunk

InitStream ==
    /\ pc = "stream"
    /\ transport \in LineSeqs(MaxLines)
    /\ upstream \in {[kind |-> k, shape |-> 0, text |-> <<>>] :
                        k \in {"refused", "status", "ok"}}
    /\ delivered = <<>> /\ yielded = <<>>
    /\ requests_ok = TRUE /\ argv = NoArgv /\ env_key = <<>>
    /\ result = NoResult /\ stdout = <<>> /\ exit_code = -1
    /\ content = <<>> /\ references = <<>>

StreamUntouched == <<requests_ok, argv, env_key, upstream, result, stdout,
                     exit_code, content, references>>

\* lines 118-119: the request, and raise_for_status
OpenStream ==
    /\ pc = "stream"
    /\ pc' = IF upstream.kind = "ok" THEN "streaming" ELSE "stream_failed"
    /\ UNCHANGED <<transport, delivered, yielded>> /\ UNCHANGED StreamUntouched

\* lines 120-125, for the next line of the response
ReadLine ==
    /\ pc = "streaming"
    /\ transport # <<>>
    /\ transport' = Tail(transport)
    /\ delivered' = Append(delivered, Head(transport))
    /\ IF chunk_of(Head(transport)) = NoChunk
       THEN UNCHANGED <<pc, yielded>>
       ELSE IF decode(chunk_of(Head(transport))).ok
       THEN /\ yielded' = Append(yielded, decode(chunk_of(Head(transport))).v)
            /\ UNCHANGED pc
       ELSE pc' = "stream_failed" /\ UNCHANGED yielded
    /\ UNCHANGED StreamUntouched

\* the response is closed: iter_lines ends and so does the generator
EndStream ==
    /\ pc = "streaming"
    /\ transport = <<>>
    /\ pc' = "stream_end"
    /\ UNCHANGED <<transport, delivered, yielded>> /\ UNCHANGED StreamUntouched

NextStream == OpenStream \/ ReadLine \/ EndStream

SpecStream == InitStream /\ [][NextStream]_vars

----------------------------------------------------------------------------
(* Properties of extract_references (SpecExtract).                         *)

\* the entries "<n>. <title> - <snippet> - <url>" of a well-formed list,
\* each with the fields as they are written
WellFormedEntries ==
    {[line |-> Entry(n, t, sn, u), title |-> t, snippet |-> sn, url |-> u] :
        n \in {<<"1">>, <<"2">>, <<"1","0">>}, t \in {<<"T">>, <<"U">>},
        sn \in {<<"S">>, <<"V">>}, u \in {UrlX, UrlYZ}}
EntryOf(line) == CHOOSE e \in WellFormedEntries : e.line = line
\* the references section of the content is found and every line of it is
\* a well-formed entry
WellFormedList(text) ==
    /\ section_lines(text) # <<>>
    /\ \A i \in DOMAIN section_lines(text) :
          \E e \in WellFormedEntries : e.line = section_lines(text)[i]
\* a URL up to its last word character
UpToLastWord(u) == SubSeq(u, 1, Max({i \in DOMAIN u : IsWord(u[i])}))
AsWritten(lines) ==
    [i \in DOMAIN lines |-> [title |-> EntryOf(lines[i]).title,
                             snippet |-> EntryOf(lines[i]).snippet,
                             url |-> EntryOf(lines[i]).url]]
AsWrittenCut(lines) ==
    [i \in DOMAIN lines |-> [title |-> EntryOf(lines[i]).title,
                             snippet |-> EntryOf(lines[i]).snippet,
                             url |-> UpToLastWord(EntryOf(lines[i]).url)]]

\* C5, as stated: for a well-formed numbered list, extract_references
\* returns one reference per line, in order, whose title, snippet and url
\* are exactly the three written fields.
C5_FieldsAsWritten ==
    (pc = "extracted" /\ WellFormedList(content))
        => references = AsWritten(section_lines(content))

\* C5, amended: for a well-formed numbered list, extract_references
\* returns one reference per line, in order, with the written title and
\* snippet, and with the written url cut after its last word character.
C5_UrlCutAtLastWordCharacter ==
    (pc = "extracted" /\ WellFormedList(content))
        => references = AsWrittenCut(section_lines(content))

\* a two-entry list was parsed, and the url of its second entry was cut
C5_Witness ==
    /\ pc = "extracted"
    /\ WellFormedList(content)
    /\ Len(references) = 2
    /\ references[1].url = UrlX
    /\ references[2].url # EntryOf(section_lines(content)[2]).url

HasScheme(url) ==
    \/ MatchLit(url, 0, <<"h","t","t","p",":","/","/">>)
    \/ MatchLit(url, 0, <<"h","t","t","p","s",":","/","/">>)

\* C6: every reference extract_references returns has a non-empty title
\* and a non-empty snippet, and a url that is a piece of the content and
\* starts with http:// or https://.
C6_NoEmptyTitleOrSnippet ==
    pc = "extracted" =>
        \A i \in DOMAIN references :
            /\ references[i].title # <<>>
            /\ references[i].snippet # <<>>
            /\ find(content, references[i].url) # -1
            /\ HasScheme(references[i].url)

\* the offsets at which the URLs of the content stand, in document order
RECURSIVE UrlOffsets(_, _)
UrlOffsetsFrom(text, p) ==
    IF p = -1 THEN <<>> ELSE <<p>> \o UrlOffsets(text, UrlEnd(text, p))
UrlOffsets(text, pos) ==
    UrlOffsetsFrom(text, MinOr({p \in pos..Len(text) :
                                   WordBoundary(text, p) /\ UrlEnd(text, p) # -1}, -1))
AroundEachOccurrence(text, offsets) ==
    [i \in DOMAIN offsets |->
        surrounding_reference(surrounding(text, offsets[i]),
                              Slice(text, offsets[i], UrlEnd(text, offsets[i])))]

\* C9: when no line of a references section gives a reference, the
\* fallback returns one reference per URL occurrence of the content, in
\* document order, each built from the text that precedes that very
\* occurrence, also when a URL occurs twice or inside another URL.
C9_SnippetOfEachOccurrence ==
    (pc = "extracted" /\ parse_lines(section_lines(content)) = <<>>)
        => references = AroundEachOccurrence(content, UrlOffsets(content, 0))

\* C10: an entry of the references section whose title, snippet and url
\* are separated by line breaks is returned as one reference with these
\* three fields.
C10_EntryAcrossLineBreaks ==
    (pc = "extracted" /\ section_lines(content) = split(strip(BrokenEntry)))
        => references = <<[title |-> <<"T">>, snippet |-> <<"S">>, url |-> UrlX]>>

----------------------------------------------------------------------------
(* Properties of the script and of perform_research (Spec).                *)

\* C1: an invocation of the script prints exactly one JSON result: never
\* more than one, and one when the process has exited.
C1_OneResultPrinted ==
    /\ Len(stdout) <= 1
    /\ pc = "exited" => Len(stdout) = 1

\* the query is missing: the result is printed inside the try block and
\* SystemExit passes the handler
C1_Witness ==
    /\ pc = "exited"
    /\ argv.kind = "object" /\ argv.query.v = <<>>
    /\ stdout = <<no_query_result>>

NoArgument == argv.kind = "none"
NoQuery == argv.kind = "object" /\ argv.query.v = <<>>
NotAnObject == argv.kind \in {"text", "array"}

\* C2, as stated: the script exits with code 1 only when no argument was
\* given or the argument holds no query; in every other branch it exits
\* with code 0.
C2_ExitOneOnlyPreflight ==
    (pc = "exited" /\ requests_ok)
        => (exit_code = 1 <=> (NoArgument \/ NoQuery))

\* C2, amended: the script exits with code 1 when requests cannot be
\* imported, when no argument was given, when the argument is not a JSON
\* object, and when it holds no query; in every other branch it exits
\* with code 0.
C2_ExitCodes ==
    pc = "exited" =>
        exit_code = IF ~requests_ok \/ NoArgument \/ NotAnObject \/ NoQuery
                    THEN 1 ELSE 0

\* the argument was not a JSON object: the handler printed and exited 1
C2_Witness ==
    /\ pc = "exited"
    /\ requests_ok /\ NotAnObject
    /\ exit_code = 1
    /\ Len(stdout) = 1 /\ stdout[1].simulated

\* the results the process has printed or perform_research has returned
Results ==
    Range(stdout) \cup (IF pc \in {"output", "returned"} THEN {result} ELSE {})
CallMade == upstream.kind # "none"
CallFailed == upstream.kind \in {"refused", "status", "garbled"}

\* C3: a result is flagged simulated exactly when no upstream call was
\* made or the call failed, and a simulated result carries a non-empty
\* error.
C3_SimulatedIffNoCallOrFailed ==
    (requests_ok /\ pc \in {"output", "returned", "exited"}) =>
        \A r \in Results :
            /\ r.simulated <=> (~CallMade \/ CallFailed)
            /\ r.simulated => ("error" \in DOMAIN r /\ r.error # <<>>)

\* the bodies in which a field on the way to the content is missing or
\* empty: no choices, an empty choices list, a choice without message, a
\* null message, a message without content, a null content
MissingOrEmpty == 2..7

\* C4: a response in which a field on the way to the content is missing
\* or empty degrades to the empty answer with no references, and is not
\* an error.
C4_MissingFieldsDegrade ==
    (pc \in {"output", "returned"} /\ upstream.kind = "json"
                                   /\ upstream.shape \in MissingOrEmpty)
        => /\ ~result.simulated
           /\ result.answer = <<>>
           /\ result.references = <<>>

CaseFold(c) == IF c \in Range(UpperLetters) THEN LowerOf(c)[1] ELSE c
MentionAt(text, p) ==
    /\ p + 10 <= Len(text)
    /\ \A k \in 1..10 : CaseFold(text[p + k]) = Mention[k]
Mentions(text) == {p \in 0..(Len(text) - 10) : MentionAt(text, p)}
TextUpTo(text, hits) ==
    IF hits = {} THEN text ELSE strip(Slice(text, 0, Min(hits)))

\* C7: the answer of a successful research is the content up to the first
\* occurrence of the word "references", whatever its case; when the
\* content has a references section, the answer holds no text of it and
\* no longer holds the word.
C7_AnswerWithoutReferences ==
    (pc \in {"output", "returned"} /\ upstream.kind = "json" /\ upstream.shape = 1)
        => /\ result.answer = TextUpTo(upstream.text, Mentions(upstream.text))
           /\ section_offset(upstream.text) # -1 =>
                /\ \E k \in 0..SectionStart(upstream.text, section_offset(upstream.text)) :
                      result.answer = strip(Slice(upstream.text, 0, k))
                /\ Mentions(result.answer) = {}

----------------------------------------------------------------------------
(* Properties of _stream_response (SpecStream).                            *)

IsSentinel(line) ==
    StartsAt(line, 0, DataPrefix) /\ strip(Slice(line, 6, Len(line))) = DoneMark
BeforeSentinel(lines) ==
    SubSeq(lines, 1, MinOr({i \in DOMAIN lines : IsSentinel(lines[i])},
                            Len(lines) + 1) - 1)
RECURSIVE Payloads(_)
Payloads(lines) ==
    IF lines = <<>> THEN <<>>
    ELSE (IF StartsAt(Head(lines), 0, DataPrefix)
          THEN <<Utf8Text(Slice(Head(lines), 6, Len(Head(lines))))>> ELSE <<>>)
         \o Payloads(Tail(lines))

\* C8: the generator yields the payload of every data line up to the
\* sentinel line and nothing after it: the sentinel ends the sequence
\* even when the transport delivers further lines.
C8_SentinelEndsTheStream ==
    pc \in {"streaming", "stream_end"}
        => yielded = Payloads(BeforeSentinel(delivered))

====
